---- MODULE Spec2Model ----
(***************************************************************************)
(* Model of assistant.py: a Tkinter voice assistant.  Three kinds of       *)
(* thread run concurrently: the audio capture callback (sd_callback), the  *)
(* recognizer thread (stt_worker) and the interface thread (button         *)
(* handlers and the check_text_queue poll), plus one short-lived thread    *)
(* per speak() call.                                                       *)
(*                                                                         *)
(* A Python str is modelled as a sequence of one-character strings, so     *)
(* that lower(), strip(), `in` and startswith() are computed.  A           *)
(* transcript line or a spoken text f"{pre}{arg}" is the record            *)
(* [pre |-> literal, arg |-> characters]; a transcript line ends with      *)
(* "\n", which the record leaves implicit.                                 *)
(*                                                                         *)
(* A handler of the interface thread runs to completion: its modal         *)
(* messagebox is answered within the step.  The transcript widget is       *)
(* modelled by the lines the last handler appended to it (out), the        *)
(* speak() calls by the texts of the last handler (said).                  *)
(***************************************************************************)
EXTENDS Integers, Sequences, FiniteSets, TLC

\* ---------------------------------------------------------------- bounds
MaxAudio == 1
MaxText == 1
MaxTasks == 2
MaxPollText == 2
MaxDrainText == 2

\* ------------------------------------------------------------ characters
UpperChars ==
    <<"A","B","C","D","E","F","G","H","I","J","K","L","M",
      "N","O","P","Q","R","S","T","U","V","W","X","Y","Z">>

LowerChars ==
    <<"a","b","c","d","e","f","g","h","i","j","k","l","m",
      "n","o","p","q","r","s","t","u","v","w","x","y","z">>

Whitespace == {" ", "\t", "\n", "\r"}

LowerChar(c) ==
    IF \E i \in DOMAIN UpperChars : UpperChars[i] = c
    THEN LowerChars[CHOOSE i \in DOMAIN UpperChars : UpperChars[i] = c]
    ELSE c

\* str.lower()
Lower(s) == [i \in DOMAIN s |-> LowerChar(s[i])]

\* str.strip(): drop leading and trailing whitespace
Strip(s) ==
    LET keep == {i \in DOMAIN s : s[i] \notin Whitespace}
    IN  IF keep = {} THEN <<>>
        ELSE LET lo == CHOOSE i \in keep : \A j \in keep : i <= j
                 hi == CHOOSE i \in keep : \A j \in keep : j <= i
             IN  SubSeq(s, lo, hi)

\* p in s
Contains(s, p) ==
    \E i \in 0..(Len(s) - Len(p)) : SubSeq(s, i + 1, i + Len(p)) = p

\* s.startswith(p)
StartsWith(s, p) == Len(s) >= Len(p) /\ SubSeq(s, 1, Len(p)) = p

Digits == <<"0","1","2","3","4","5","6","7","8","9">>

RECURSIVE Decimal(_)
\* str(n) of a non-negative int
Decimal(n) ==
    IF n < 10 THEN <<Digits[n + 1]>>
    ELSE Decimal(n \div 10) \o <<Digits[(n % 10) + 1]>>

\* a two-digit zero-padded field of strftime
TwoDigits(n) == <<Digits[(n \div 10) + 1], Digits[(n % 10) + 1]>>

\* ------------------------------------------------------- pattern literals
P_add_task == <<"a","d","d"," ","t","a","s","k">>
P_add == <<"a","d","d">>
P_list_tasks == <<"l","i","s","t"," ","t","a","s","k","s">>
P_show_tasks == <<"s","h","o","w"," ","t","a","s","k","s">>
P_screenshot == <<"s","c","r","e","e","n","s","h","o","t">>
P_take_a_screenshot ==
    <<"t","a","k","e"," ","a"," ">> \o P_screenshot
P_open_chrome == <<"o","p","e","n"," ","c","h","r","o","m","e">>
P_open_browser == <<"o","p","e","n"," ","b","r","o","w","s","e","r">>
P_time == <<"t","i","m","e">>
P_whats_the_time ==
    <<"w","h","a","t","'","s"," ","t","h","e"," ">> \o P_time
P_current_time == <<"c","u","r","r","e","n","t"," ">> \o P_time
P_exit == <<"e","x","i","t">>
P_quit == <<"q","u","i","t">>
P_goodbye == <<"g","o","o","d","b","y","e">>

\* -------------------------------------------------------- output records
Line(pre, arg) == [pre |-> pre, arg |-> arg]

Fixed(text) == [pre |-> text, arg |-> <<>>]

\* ------------------------------------------------------- the wall clock
Hours == {0, 9, 12, 14}
Minutes == {5, 59}
Clocks == [h : Hours, m : Minutes]

\* Every minute of a day
DayClocks == [h : 0..23, m : 0..59]

\* int(time.time()): seconds, counted here from the day's midnight
Epoch(now) == now.h * 3600 + now.m * 60

\* A faulty StrFTime: the hour is shown as %H shows it, on 24 hours.
StrFTime_24h(now) ==
    TwoDigits(now.h) \o <<":">> \o TwoDigits(now.m) \o <<" ">>
    \o (IF now.h < 12 THEN <<"A","M">> ELSE <<"P","M">>)

\* strftime('%I:%M %p')
StrFTime(now) ==
    LET h12 == IF now.h % 12 = 0 THEN 12 ELSE now.h % 12
    IN  TwoDigits(h12) \o <<":">> \o TwoDigits(now.m) \o <<" ">>
        \o (IF now.h < 12 THEN <<"A","M">> ELSE <<"P","M">>)

ScreenshotPath(now) ==
    <<"s","c","r","e","e","n","s","h","o","t","_">> \o Decimal(Epoch(now))
    \o <<".","p","n","g">>

\* ------------------------------------------------ handle_command (pure part)
\* A faulty IsAddTask: the startswith('add') test is missing.
IsAddTask_NoPrefix(cmd) == Contains(cmd, P_add_task)

\* The conditions of the if-chain, each on the lower-cased command.
IsAddTask(cmd) == Contains(cmd, P_add_task) \/ StartsWith(cmd, P_add)

IsListTasks(cmd) == Contains(cmd, P_list_tasks) \/ Contains(cmd, P_show_tasks)

IsScreenshot(cmd) ==
    Contains(cmd, P_screenshot) \/ Contains(cmd, P_take_a_screenshot)

IsOpenBrowser(cmd) ==
    Contains(cmd, P_open_chrome) \/ Contains(cmd, P_open_browser)

IsTime(cmd) ==
    Contains(cmd, P_time) \/ Contains(cmd, P_whats_the_time)
    \/ Contains(cmd, P_current_time)

IsExit(cmd) ==
    Contains(cmd, P_exit) \/ Contains(cmd, P_quit) \/ Contains(cmd, P_goodbye)

\* A faulty MatchedRow: the time test comes first.
MatchedRow_TimeFirst(cmd) ==
    IF IsTime(cmd) THEN "time"
    ELSE IF IsAddTask(cmd) THEN "add"
    ELSE IF IsListTasks(cmd) THEN "list"
    ELSE IF IsScreenshot(cmd) THEN "screenshot"
    ELSE IF IsOpenBrowser(cmd) THEN "browser"
    ELSE IF IsExit(cmd) THEN "exit"
    ELSE "none"

\* The branch of the if-chain that runs: the first whose condition holds.
MatchedRow(cmd) ==
    IF IsAddTask(cmd) THEN "add"
    ELSE IF IsListTasks(cmd) THEN "list"
    ELSE IF IsScreenshot(cmd) THEN "screenshot"
    ELSE IF IsOpenBrowser(cmd) THEN "browser"
    ELSE IF IsTime(cmd) THEN "time"
    ELSE IF IsExit(cmd) THEN "exit"
    ELSE "none"

\* A faulty ListLines: the tasks are listed newest first.
ListLines_Reversed(tks) ==
    IF tks # <<>>
    THEN [i \in DOMAIN tks |-> Line("Assistant: ", tks[Len(tks) + 1 - i])]
    ELSE <<Fixed("Assistant: You have no tasks.")>>

\* The list-tasks branch: the transcript lines it appends.
ListLines(tks) ==
    IF tks # <<>>
    THEN [i \in DOMAIN tks |-> Line("Assistant: ", tks[i])]
    ELSE <<Fixed("Assistant: You have no tasks.")>>

\* The list-tasks branch: the texts it hands to speak().
ListSpoken(tks) ==
    IF tks # <<>>
    THEN [i \in DOMAIN tks |-> Line("", tks[i])]
    ELSE <<Fixed("You have no tasks.")>>

\* handle_command(txt, append_transcript) reading the task list tks at wall
\* clock now; extOk says whether the external call (pyautogui.screenshot,
\* webbrowser.open) returns rather than raises.  The result is the returned
\* state ("raise" when the exception leaves the function), the transcript
\* lines appended and the texts handed to speak(), in order.
HandleCommand(txt, tks, now, extOk) ==
    LET cmd == Lower(txt)
        you == Line("You: ", cmd)
        row == MatchedRow(cmd)
    IN  CASE row = "add" ->
               [state |-> "awaiting_task",
                out |-> <<you, Fixed("Assistant: What is the task?")>>,
                said |-> <<Fixed("What is the task?")>>]
          [] row = "list" ->
               [state |-> "done",
                out |-> <<you>> \o ListLines(tks),
                said |-> ListSpoken(tks)]
          [] row = "screenshot" ->
               IF extOk
               THEN [state |-> "done",
                     out |-> <<you, Line("Assistant: Screenshot saved to ",
                                         ScreenshotPath(now))>>,
                     said |-> <<Fixed("Screenshot taken for you.")>>]
               ELSE [state |-> "raise", out |-> <<you>>, said |-> <<>>]
          [] row = "browser" ->
               [state |-> IF extOk THEN "done" ELSE "raise",
                out |-> <<you, Fixed("Assistant: Opening browser.")>>,
                said |-> <<Fixed("Opening browser")>>]
          [] row = "time" ->
               [state |-> "done",
                out |-> <<you, Line("Assistant: The time is ", StrFTime(now))>>,
                said |-> <<Line("The time is ", StrFTime(now))>>]
          [] row = "exit" ->
               [state |-> "exit",
                out |-> <<you, Fixed("Assistant: Goodbye!")>>,
                said |-> <<Fixed("Goodbye")>>]
          [] OTHER ->
               [state |-> "done",
                out |-> <<you, Fixed("Assistant: I didn't understand that. Try again.")>>,
                said |-> <<Fixed("I didn't understand that. Try again.")>>]

\* ---------------------------------------------------------- save_tasks file
RECURSIVE FileText(_)
\* what the loop `for t in tasks: f.write(t + '\n')` writes
FileText(tks) ==
    IF tks = <<>> THEN <<>>
    ELSE Head(tks) \o <<"\n">> \o FileText(Tail(tks))

\* tasks.txt before the first save
NoFile == <<"<absent>">>

\* --------------------------------------------------------------- the inputs
U_buy_milk == <<"b","u","y"," ","m","i","l","k">>
U_Call_Mom == <<"C","a","l","l"," ","M","o","m">>
U_Show_Tasks == <<"S","h","o","w"," ","T","a","s","k","s">>

\* What recognizer.Result() may hold as 'text' in the concurrent
\* specification: empty, blank, padded text, and two commands.
RawResults ==
    { <<>>, <<" ">>, <<" ">> \o U_buy_milk \o <<" ">>, P_add_task, P_exit }

\* What Result() may hold in the drain specification: the task command, a
\* command whose external call can fail, and exit.
DrainResults ==
    { P_add_task, P_open_chrome, P_exit }

\* The utterances the poll loop is tried on in the poll specification: every
\* pattern of the table, overlaps of two rows, upper case, and plain text.
PollVocabulary ==
    { P_add_task,
      <<"a","d","d","r","e","s","s">>,
      <<"d","o"," ">> \o P_add_task,
      P_add_task \o <<" ">> \o P_time,
      U_buy_milk,
      U_Call_Mom,
      P_list_tasks,
      U_Show_Tasks,
      P_take_a_screenshot,
      P_open_chrome,
      P_open_browser,
      P_whats_the_time,
      P_time \o <<" ","t","o"," ">> \o P_exit,
      P_exit,
      P_quit,
      P_goodbye }

\* Utterances whose first matching row is the time row
TimeUtterances ==
    { P_time,
      P_whats_the_time,
      <<"C","u","r","r","e","n","t"," ","T","i","m","e">>,
      P_time \o <<" ","t","o"," ">> \o P_exit }

\* Task lists the poll specification starts from
StoredLists == {<<>>, <<U_buy_milk>>, <<U_buy_milk, U_Call_Mom>>}

\* Sequences over S of length at most n
BoundedSeq(S, n) == UNION {[1..k -> S] : k \in 0..n}

\* -------------------------------------------------------------------- state
VARIABLES
    vosk_model,      \* TRUE iff Model(MODEL_PATH) loaded (recognizer exists)
    listening_flag,  \* threading.Event
    audio_q,         \* queue.Queue of captured buffers
    text_q,          \* queue.Queue of recognized utterances
    tasks,           \* the module-level task list
    awaiting_task,   \* CuteAssistantGUI.awaiting_task
    stt_pc,          \* where stt_worker is: wait, get, accept, dead
    data,            \* stt_worker's local: the buffer it dequeued
    ui_pc,           \* interface thread: idle, drain (in the poll), exited
    destroyed,       \* the window was destroyed (self.destroy())
    speaking,        \* TRUE iff some speak() thread is still running
    out,             \* transcript lines appended by the last interface step
    said,            \* texts handed to speak() by the last interface step
    dialog,          \* messagebox shown by the last interface step
    file,            \* contents of tasks.txt
    clock            \* datetime.now() as read by the last poll iteration

vars ==
    <<vosk_model, listening_flag, audio_q, text_q, tasks, awaiting_task,
      stt_pc, data, ui_pc, destroyed, speaking, out, said, dialog, file,
      clock>>

\* The last poll iteration did not read the clock.
NoClock == [h |-> -1, m |-> -1]

NoData == [heard |-> FALSE, status |-> FALSE, live |-> FALSE]

\* A captured buffer, abstracted to when it was captured: whether the
\* listening flag was set, and whether the device reported a status.
Buffer(heard, status) == [heard |-> heard, status |-> status, live |-> TRUE]

\* The process runs until the interface thread leaves mainloop; the other
\* threads are daemons and end with it.
Running == ui_pc # "exited"

Init ==
    /\ vosk_model \in BOOLEAN
    /\ listening_flag = FALSE
    /\ audio_q = <<>>
    /\ text_q = <<>>
    /\ tasks = <<>>
    /\ awaiting_task = FALSE
    /\ stt_pc = "wait"
    /\ data = NoData
    /\ ui_pc = "idle"
    /\ destroyed = FALSE
    /\ speaking = FALSE
    /\ out = <<Fixed("Assistant: Ready. Click Start Listening to begin.")>>
    /\ said = <<>>
    /\ dialog = "none"
    /\ file = NoFile
    /\ clock = NoClock

\* ------------------------------------------------------------ audio capture
\* A faulty SdCallback: a buffer delivered with a status is dropped.
SdCallback_DropsOnStatus ==
    /\ Running
    /\ stt_pc # "dead"
    /\ Len(audio_q) < MaxAudio
    /\ \E status \in BOOLEAN :
         audio_q' = IF status THEN audio_q
                    ELSE Append(audio_q, Buffer(listening_flag, status))
    /\ UNCHANGED <<vosk_model, listening_flag, text_q, tasks, awaiting_task,
                   stt_pc, data, ui_pc, destroyed, speaking, out, said,
                   dialog, file, clock>>

\* sd_callback: print the status if any, enqueue the buffer.
SdCallback ==
    /\ Running
    /\ stt_pc # "dead"
    /\ Len(audio_q) < MaxAudio
    /\ \E status \in BOOLEAN :
         audio_q' = Append(audio_q, Buffer(listening_flag, status))
    /\ UNCHANGED <<vosk_model, listening_flag, text_q, tasks, awaiting_task,
                   stt_pc, data, ui_pc, destroyed, speaking, out, said,
                   dialog, file, clock>>

\* ---------------------------------------------------------- recognizer thread
\* A faulty SttWait: the thread does not wait for the flag.
SttWait_NoWait ==
    /\ Running
    /\ stt_pc = "wait"
    /\ stt_pc' = "get"
    /\ UNCHANGED <<vosk_model, listening_flag, audio_q, text_q, tasks,
                   awaiting_task, data, ui_pc, destroyed, speaking, out,
                   said, dialog, file, clock>>

\* listening_flag.wait()
SttWait ==
    /\ Running
    /\ stt_pc = "wait"
    /\ listening_flag
    /\ stt_pc' = "get"
    /\ UNCHANGED <<vosk_model, listening_flag, audio_q, text_q, tasks,
                   awaiting_task, data, ui_pc, destroyed, speaking, out,
                   said, dialog, file, clock>>

\* data = audio_q.get()
SttGet ==
    /\ Running
    /\ stt_pc = "get"
    /\ audio_q # <<>>
    /\ data' = Head(audio_q)
    /\ audio_q' = Tail(audio_q)
    /\ stt_pc' = "accept"
    /\ UNCHANGED <<vosk_model, listening_flag, text_q, tasks, awaiting_task,
                   ui_pc, destroyed, speaking, out, said, dialog, file,
                   clock>>

\* A faulty SttEmit: the recognizer thread appends to the task list itself.
SttEmit_Direct(text) ==
    /\ IF Strip(text) # <<>>
       THEN Len(tasks) < MaxTasks /\ tasks' = Append(tasks, Strip(text))
       ELSE tasks' = tasks
    /\ UNCHANGED <<text_q, awaiting_task>>

\* A faulty SttEmit: the text is tested and queued without strip().
SttEmit_NoStrip(text) ==
    /\ IF text # <<>>
       THEN Len(text_q) < MaxText /\ text_q' = Append(text_q, text)
       ELSE text_q' = text_q
    /\ UNCHANGED <<tasks, awaiting_task>>

\* What stt_worker does with the text of a finalized result:
\* txt = res.get('text', '').strip(); if txt: text_q.put(txt)
SttEmit(text) ==
    /\ IF Strip(text) # <<>>
       THEN Len(text_q) < MaxText /\ text_q' = Append(text_q, Strip(text))
       ELSE text_q' = text_q
    /\ UNCHANGED <<tasks, awaiting_task>>

\* if recognizer.AcceptWaveform(data): ... recognizer.Result() ...
\* The recognizer reports no utterance boundary (a partial result, nothing is
\* done) or one, with some text.  With no model, recognizer is None and the
\* call raises: the outer except ends the thread and closes the stream.
SttAccept ==
    /\ Running
    /\ stt_pc = "accept"
    /\ IF ~vosk_model
       THEN stt_pc' = "dead" /\ UNCHANGED <<text_q, tasks, awaiting_task>>
       ELSE /\ stt_pc' = "wait"
            /\ \/ UNCHANGED <<text_q, tasks, awaiting_task>>
               \/ \E text \in RawResults : SttEmit(text)
    /\ data' = NoData
    /\ UNCHANGED <<vosk_model, listening_flag, audio_q, ui_pc, destroyed,
                   speaking, out, said, dialog, file, clock>>

\* SttEmit in the drain specification, where text_q holds up to MaxDrainText.
SttEmitDrain(text) ==
    /\ IF Strip(text) # <<>>
       THEN Len(text_q) < MaxDrainText /\ text_q' = Append(text_q, Strip(text))
       ELSE text_q' = text_q
    /\ UNCHANGED <<tasks, awaiting_task>>

\* SttAccept in the drain specification: the model is loaded, and the user
\* speaks the commands of DrainResults.
SttAcceptDrain ==
    /\ Running
    /\ stt_pc = "accept"
    /\ stt_pc' = "wait"
    /\ \/ UNCHANGED <<text_q, tasks, awaiting_task>>
       \/ \E text \in DrainResults : SttEmitDrain(text)
    /\ data' = NoData
    /\ UNCHANGED <<vosk_model, listening_flag, audio_q, ui_pc, destroyed,
                   speaking, out, said, dialog, file, clock>>

\* ------------------------------------------------------------ speech threads
\* The speak() threads run engine.say / runAndWait and end; the step is the
\* end of the last one still running.
SpeakDone ==
    /\ Running
    /\ speaking
    /\ speaking' = FALSE
    /\ UNCHANGED <<vosk_model, listening_flag, audio_q, text_q, tasks,
                   awaiting_task, stt_pc, data, ui_pc, destroyed, out,
                   said, dialog, file, clock>>

\* ---------------------------------------------------------- interface thread
\* What one interface step shows: transcript lines o, speak() calls s (one
\* thread each) and the messagebox d.
Ui(o, s, d) ==
    /\ speaking' = (speaking \/ s # <<>>)
    /\ out' = o
    /\ said' = s
    /\ dialog' = d

\* A faulty ModelMissing: toggle_listen does not test the model.
ModelMissing_Never == FALSE

\* `if not vosk_model` in toggle_listen
ModelMissing == ~vosk_model

\* A faulty StopListenBody: the flag is not cleared.
StopListenBody_NoClear ==
    /\ listening_flag' = listening_flag
    /\ Ui(<<Fixed("Assistant: Stopped listening.")>>, <<>>, "none")

\* stop_listen
StopListenBody ==
    /\ listening_flag' = FALSE
    /\ Ui(<<Fixed("Assistant: Stopped listening.")>>, <<>>, "none")

\* toggle_listen (Start Listening button)
ToggleListen ==
    /\ ui_pc = "idle"
    /\ IF ModelMissing
       THEN /\ listening_flag' = listening_flag
            /\ Ui(<<>>, <<>>, "Model missing")
       ELSE IF listening_flag
            THEN StopListenBody
            ELSE /\ listening_flag' = TRUE
                 /\ Ui(<<Fixed("Assistant: Listening...")>>, <<>>, "none")
    /\ UNCHANGED <<vosk_model, audio_q, text_q, tasks, awaiting_task, stt_pc,
                   data, ui_pc, destroyed, file, clock>>

\* stop_listen (Stop button)
StopListen ==
    /\ ui_pc = "idle"
    /\ StopListenBody
    /\ UNCHANGED <<vosk_model, audio_q, text_q, tasks, awaiting_task, stt_pc,
                   data, ui_pc, destroyed, file, clock>>

\* A faulty SaveTasks: an existing tasks.txt is left as it is.
SaveTasks_KeepOld ==
    /\ ui_pc = "idle"
    /\ \/ /\ file' = IF file = NoFile THEN FileText(tasks) ELSE file
          /\ Ui(<<>>, <<>>, "Saved")
       \/ file' = file /\ Ui(<<>>, <<>>, "Error")
       \/ \E k \in 0..(Len(tasks) - 1) :
            file' = FileText(SubSeq(tasks, 1, k)) /\ Ui(<<>>, <<>>, "Error")
    /\ UNCHANGED <<vosk_model, listening_flag, audio_q, text_q, tasks,
                   awaiting_task, stt_pc, data, ui_pc, destroyed, clock>>

\* A faulty SaveTasks: a failed save empties the task list.
SaveTasks_DropsTasks ==
    /\ ui_pc = "idle"
    /\ \/ file' = FileText(tasks) /\ Ui(<<>>, <<>>, "Saved") /\ tasks' = tasks
       \/ file' = file /\ Ui(<<>>, <<>>, "Error") /\ tasks' = <<>>
       \/ \E k \in 0..(Len(tasks) - 1) :
            /\ file' = FileText(SubSeq(tasks, 1, k))
            /\ Ui(<<>>, <<>>, "Error")
            /\ tasks' = <<>>
    /\ UNCHANGED <<vosk_model, listening_flag, audio_q, text_q,
                   awaiting_task, stt_pc, data, ui_pc, destroyed, clock>>

\* save_tasks (Save Tasks button).  open() may raise, leaving the file as it
\* was; a write may raise after k tasks were written to the truncated file.
SaveTasks ==
    /\ ui_pc = "idle"
    /\ \/ file' = FileText(tasks) /\ Ui(<<>>, <<>>, "Saved")
       \/ file' = file /\ Ui(<<>>, <<>>, "Error")
       \/ \E k \in 0..(Len(tasks) - 1) :
            file' = FileText(SubSeq(tasks, 1, k)) /\ Ui(<<>>, <<>>, "Error")
    /\ UNCHANGED <<vosk_model, listening_flag, audio_q, text_q, tasks,
                   awaiting_task, stt_pc, data, ui_pc, destroyed, clock>>

\* A faulty CloseBody: the window is destroyed with the flag left as it is.
CloseBody_KeepsFlag(confirm) ==
    IF confirm
    THEN listening_flag' = listening_flag /\ destroyed' = TRUE
    ELSE UNCHANGED <<listening_flag, destroyed>>

\* on_close: ask, and when confirmed clear the flag and destroy the window.
CloseBody(confirm) ==
    IF confirm
    THEN listening_flag' = FALSE /\ destroyed' = TRUE
    ELSE UNCHANGED <<listening_flag, destroyed>>

\* on_close from the window manager (WM_DELETE_WINDOW); mainloop ends when
\* the window is destroyed.
OnClose ==
    /\ ui_pc = "idle"
    /\ \E confirm \in BOOLEAN :
         /\ CloseBody(confirm)
         /\ ui_pc' = IF confirm THEN "exited" ELSE "idle"
    /\ Ui(<<>>, <<>>, "Quit")
    /\ UNCHANGED <<vosk_model, audio_q, text_q, tasks, awaiting_task, stt_pc,
                   data, file, clock>>

\* A faulty InPoll: the timer is not armed, so that no poll ever starts.
InPoll_NotArmed == ui_pc = "drain"

\* check_text_queue runs when the after(200) timer fires (ui_pc = "idle": a
\* poll is scheduled and no handler runs) and stays in its loop
\* (ui_pc = "drain") until the queue is empty.  A poll that finds the queue
\* empty changes nothing.
InPoll == ui_pc \in {"idle", "drain"}

\* A faulty TaskFill: the task is stored lower-cased, as a command would be.
TaskFill_Lowered(txt) ==
    /\ tasks' = Append(tasks, Lower(txt))
    /\ Ui(<<Line("Assistant: Added task: ", txt)>>, <<Fixed("Task added")>>,
          "none")
    /\ awaiting_task' = FALSE

\* A faulty TaskFill: the new task replaces the list.
TaskFill_Replace(txt) ==
    /\ tasks' = <<txt>>
    /\ Ui(<<Line("Assistant: Added task: ", txt)>>, <<Fixed("Task added")>>,
          "none")
    /\ awaiting_task' = FALSE

\* A faulty TaskFill: awaiting_task is left set.
TaskFill_KeepsAwaiting(txt) ==
    /\ tasks' = Append(tasks, txt)
    /\ Ui(<<Line("Assistant: Added task: ", txt)>>, <<Fixed("Task added")>>,
          "none")
    /\ awaiting_task' = awaiting_task

\* The awaiting_task branch of the loop body, for the dequeued txt.
TaskFill(txt) ==
    /\ tasks' = Append(tasks, txt)
    /\ Ui(<<Line("Assistant: Added task: ", txt)>>, <<Fixed("Task added")>>,
          "none")
    /\ awaiting_task' = FALSE

\* One iteration of the loop with awaiting_task set.
PollFill ==
    /\ InPoll
    /\ ~destroyed
    /\ text_q # <<>>
    /\ awaiting_task
    /\ Len(tasks) < MaxTasks
    /\ text_q' = Tail(text_q)
    /\ TaskFill(Head(text_q))
    /\ ui_pc' = "drain"
    /\ clock' = NoClock
    /\ UNCHANGED <<vosk_model, listening_flag, audio_q, stt_pc, data,
                   destroyed, file>>

\* A faulty AfterCommand: an exception in handle_command ends the polling.
AfterCommand_NoFinally(r, confirm) ==
    /\ Ui(r.out, r.said, IF r.state = "exit" THEN "Quit" ELSE "none")
    /\ awaiting_task' = (r.state = "awaiting_task")
    /\ IF r.state = "exit"
       THEN CloseBody(confirm)
       ELSE UNCHANGED <<listening_flag, destroyed>>
    /\ ui_pc' = IF r.state = "raise" THEN "exited" ELSE "drain"

\* The else branch of the loop body: r is what handle_command did.
AfterCommand(r, confirm) ==
    /\ Ui(r.out, r.said, IF r.state = "exit" THEN "Quit" ELSE "none")
    /\ awaiting_task' = (r.state = "awaiting_task")
    /\ IF r.state = "exit"
       THEN CloseBody(confirm)
       ELSE UNCHANGED <<listening_flag, destroyed>>
    /\ ui_pc' = IF r.state = "raise" THEN "idle" ELSE "drain"

\* The environment's part in one dispatch: the clock is read by the time and
\* screenshot branches, an external call is made by the screenshot and browser
\* branches, and the user answers on_close's question in the exit branch.
ClockRead(row) ==
    IF row \in {"time", "screenshot"} THEN Clocks ELSE {[h |-> 0, m |-> 0]}

ExternalCall(row) ==
    IF row \in {"screenshot", "browser"} THEN BOOLEAN ELSE {TRUE}

Answer(row) == IF row = "exit" THEN BOOLEAN ELSE {FALSE}

\* One iteration of the loop with awaiting_task clear.  An exception leaves
\* the loop; the finally clause schedules the next poll.
PollDispatch ==
    /\ InPoll
    /\ ~destroyed
    /\ text_q # <<>>
    /\ ~awaiting_task
    /\ text_q' = Tail(text_q)
    /\ LET row == MatchedRow(Lower(Head(text_q)))
       IN  \E now \in ClockRead(row), extOk \in ExternalCall(row),
              confirm \in Answer(row) :
             /\ AfterCommand(HandleCommand(Head(text_q), tasks, now, extOk),
                             confirm)
             /\ clock' = IF row = "time" THEN now ELSE NoClock
    /\ UNCHANGED <<vosk_model, audio_q, tasks, stt_pc, data, file>>

\* PollDispatch for a time command, at any minute of the day.
PollDispatchDay ==
    /\ InPoll
    /\ ~destroyed
    /\ text_q # <<>>
    /\ ~awaiting_task
    /\ MatchedRow(Lower(Head(text_q))) = "time"
    /\ text_q' = Tail(text_q)
    /\ \E now \in DayClocks :
         /\ AfterCommand(HandleCommand(Head(text_q), tasks, now, TRUE), FALSE)
         /\ clock' = now
    /\ UNCHANGED <<vosk_model, audio_q, tasks, stt_pc, data, file>>

\* `while not text_q.empty()` fails: the finally clause schedules the next
\* poll.
PollEnd ==
    /\ ui_pc = "drain"
    /\ ~destroyed
    /\ text_q = <<>>
    /\ ui_pc' = "idle"
    /\ UNCHANGED <<vosk_model, listening_flag, audio_q, text_q, tasks,
                   awaiting_task, stt_pc, data, destroyed, speaking, out,
                   said, dialog, file, clock>>

\* The loop goes on after on_close destroyed the window: the next transcript
\* append raises (after tasks.append in the awaiting branch), and so does
\* self.after in the finally clause; mainloop has ended.
PollDestroyed ==
    /\ ui_pc = "drain"
    /\ destroyed
    /\ IF text_q = <<>>
       THEN UNCHANGED <<text_q, tasks>>
       ELSE /\ text_q' = Tail(text_q)
            /\ tasks' = IF awaiting_task THEN Append(tasks, Head(text_q))
                        ELSE tasks
    /\ ui_pc' = "exited"
    /\ UNCHANGED <<vosk_model, listening_flag, audio_q, awaiting_task, stt_pc,
                   data, destroyed, speaking, out, said, dialog, file, clock>>

\* ------------------------------------------------------------ specifications
Next ==
    \/ SdCallback
    \/ SttWait
    \/ SttGet
    \/ SttAccept
    \/ SpeakDone
    \/ ToggleListen
    \/ StopListen
    \/ SaveTasks
    \/ OnClose
    \/ PollFill
    \/ PollDispatch
    \/ PollEnd
    \/ PollDestroyed

Spec == Init /\ [][Next]_vars

\* The poll loop alone, started between two polls in any state of the task
\* list and the dispatcher, with utterances already queued.
InitPoll ==
    /\ vosk_model = TRUE
    /\ listening_flag = TRUE
    /\ audio_q = <<>>
    /\ text_q \in BoundedSeq(PollVocabulary, MaxPollText) \ {<<>>}
    /\ tasks \in {t \in StoredLists : Len(t) <= MaxTasks}
    /\ awaiting_task \in BOOLEAN
    /\ stt_pc = "wait"
    /\ data = NoData
    /\ ui_pc = "idle"
    /\ destroyed = FALSE
    /\ speaking = FALSE
    /\ out = <<>>
    /\ said = <<>>
    /\ dialog = "none"
    /\ file = NoFile
    /\ clock = NoClock

NextPoll ==
    \/ PollFill
    \/ PollDispatch
    \/ PollEnd
    \/ PollDestroyed
    \/ SpeakDone

SpecPoll == InitPoll /\ [][NextPoll]_vars

\* The time command alone: one is queued, and dispatched at any minute.
InitTime ==
    /\ vosk_model = TRUE
    /\ listening_flag = TRUE
    /\ audio_q = <<>>
    /\ text_q \in {<<u>> : u \in TimeUtterances}
    /\ tasks = <<>>
    /\ awaiting_task = FALSE
    /\ stt_pc = "wait"
    /\ data = NoData
    /\ ui_pc = "idle"
    /\ destroyed = FALSE
    /\ speaking = FALSE
    /\ out = <<>>
    /\ said = <<>>
    /\ dialog = "none"
    /\ file = NoFile
    /\ clock = NoClock

NextTime ==
    \/ PollDispatchDay
    \/ PollEnd
    \/ SpeakDone

SpecTime == InitTime /\ [][NextTime]_vars

\* The recognizer and the poll loop side by side while the user listens and
\* presses no button: utterances are queued while earlier ones are handled.
InitDrain ==
    /\ vosk_model = TRUE
    /\ listening_flag = TRUE
    /\ audio_q = <<>>
    /\ text_q = <<>>
    /\ tasks = <<>>
    /\ awaiting_task = FALSE
    /\ stt_pc = "wait"
    /\ data = NoData
    /\ ui_pc = "idle"
    /\ destroyed = FALSE
    /\ speaking = FALSE
    /\ out = <<Fixed("Assistant: Listening...")>>
    /\ said = <<>>
    /\ dialog = "none"
    /\ file = NoFile
    /\ clock = NoClock

NextDrain ==
    \/ SdCallback
    \/ SttWait
    \/ SttGet
    \/ SttAcceptDrain
    \/ SpeakDone
    \/ PollFill
    \/ PollDispatch
    \/ PollEnd
    \/ PollDestroyed

SpecDrain == InitDrain /\ [][NextDrain]_vars

\* An iteration of the loop of check_text_queue, told by what PollFill and
\* PollDispatch share: their guard, and the get_nowait() at the head.
PollTakes ==
    /\ InPoll
    /\ ~destroyed
    /\ text_q # <<>>
    /\ awaiting_task => Len(tasks) < MaxTasks
    /\ text_q' = Tail(text_q)

\* The finally clause of check_text_queue re-arms the 200 ms timer and
\* mainloop runs it: an iteration that stays possible is taken, and so is the
\* end of the loop.
FairSpecDrain == SpecDrain /\ WF_text_q(PollTakes) /\ WF_vars(PollEnd)

\* =================================================================== claims
\* Vocabulary of the claims, stated apart from the model's definitions.

\* The step dequeues the head of text_q (only check_text_queue does).
Dequeues == text_q # <<>> /\ text_q' = Tail(text_q)

IsPrefix(a, b) == Len(a) <= Len(b) /\ SubSeq(b, 1, Len(a)) = a

IsBlank(t) == \A i \in DOMAIN t : t[i] \in Whitespace

PromptOut(u) ==
    <<Line("You: ", Lower(u)), Fixed("Assistant: What is the task?")>>

AddedOut(u) == <<Line("Assistant: Added task: ", u)>>

ListeningOut == <<Fixed("Assistant: Listening...")>>

StoppedOut == <<Fixed("Assistant: Stopped listening.")>>

\* The pattern table of the dispatcher, in its order: the substrings and the
\* prefixes of each row, and the reply line(s) the row shows after "You: ".
Table ==
    << [row |-> "add", subs |-> {P_add_task}, prefixes |-> {P_add}],
       [row |-> "list", subs |-> {P_list_tasks, P_show_tasks}, prefixes |-> {}],
       [row |-> "screenshot", subs |-> {P_screenshot, P_take_a_screenshot},
        prefixes |-> {}],
       [row |-> "browser", subs |-> {P_open_chrome, P_open_browser},
        prefixes |-> {}],
       [row |-> "time", subs |-> {P_time, P_whats_the_time, P_current_time},
        prefixes |-> {}],
       [row |-> "exit", subs |-> {P_exit, P_quit, P_goodbye}, prefixes |-> {}] >>

RowMatches(r, cmd) ==
    \/ \E p \in r.subs : Contains(cmd, p)
    \/ \E p \in r.prefixes : StartsWith(cmd, p)

FirstRow(cmd) ==
    LET hits == {i \in DOMAIN Table : RowMatches(Table[i], cmd)}
    IN  IF hits = {} THEN "none"
        ELSE Table[CHOOSE i \in hits : \A j \in hits : i <= j].row

\* The literal parts of the lines that follow the "You: " line
Replies(o) == [i \in 1..(Len(o) - 1) |-> o[i + 1].pre]

\* The replies a row may show, given the task list it reads.  The screenshot
\* row shows nothing when the capture raises.
RowReplies(row, tks) ==
    CASE row = "add" -> {<<"Assistant: What is the task?">>}
      [] row = "list" ->
           {IF tks = <<>> THEN <<"Assistant: You have no tasks.">>
            ELSE [i \in DOMAIN tks |-> "Assistant: "]}
      [] row = "screenshot" -> {<<"Assistant: Screenshot saved to ">>, <<>>}
      [] row = "browser" -> {<<"Assistant: Opening browser.">>}
      [] row = "time" -> {<<"Assistant: The time is ">>}
      [] row = "exit" -> {<<"Assistant: Goodbye!">>}
      [] OTHER -> {<<"Assistant: I didn't understand that. Try again.">>}

\* C1: an utterance dequeued while awaiting_task is set is appended unchanged
\* as the last task, the state becomes idle, and no command runs for it: the
\* transcript gets the "Added task" line only, and nothing else changes.
C1_FillVerbatim ==
    [][ (awaiting_task /\ Dequeues) =>
          /\ tasks' = Append(tasks, Head(text_q))
          /\ ~awaiting_task'
          /\ out' = AddedOut(Head(text_q))
          /\ said' = <<Fixed("Task added")>>
          /\ dialog' = "none"
          /\ UNCHANGED <<listening_flag, destroyed, file>> ]_vars

\* C1 witness: the command "Show Tasks" was stored after an earlier task, as
\* heard, no window was closed, and the dispatcher is idle again.
C1_Witness ==
    /\ tasks = <<U_buy_milk, U_Show_Tasks>>
    /\ ~awaiting_task
    /\ ~destroyed
    /\ out = AddedOut(U_Show_Tasks)

\* C2: from the idle state an utterance containing "add task" or starting
\* with "add" shows the prompt, leaves the task list as it is and sets
\* awaiting_task; with the list empty, "buy milk" dequeued next makes the list
\* exactly <<"buy milk">> and the state idle.
C2_AddThenFill ==
    [][ /\ ( /\ ~awaiting_task
             /\ ~destroyed
             /\ Dequeues
             /\ \/ Contains(Lower(Head(text_q)), P_add_task)
                \/ StartsWith(Lower(Head(text_q)), P_add) )
           => /\ out' = PromptOut(Head(text_q))
              /\ said' = <<Fixed("What is the task?")>>
              /\ tasks' = tasks
              /\ awaiting_task'
        /\ ( /\ awaiting_task
             /\ tasks = <<>>
             /\ out = PromptOut(P_add_task)
             /\ Dequeues
             /\ Head(text_q) = U_buy_milk )
           => /\ tasks' = <<U_buy_milk>>
              /\ ~awaiting_task' ]_vars

\* C2 witness: "add task" then "buy milk" were handled from an empty list.
C2_Witness ==
    /\ tasks = <<U_buy_milk>>
    /\ ~awaiting_task
    /\ out = AddedOut(U_buy_milk)
    /\ text_q = <<>>
    /\ ui_pc = "drain"

\* C3: a dispatched utterance gets the "You: " line with the lower-cased text
\* and then exactly the replies of the first table row that matches it; only
\* the add row sets awaiting_task, and only the screenshot and browser rows
\* can fail.
C3_FirstMatchWins ==
    [][ (~awaiting_task /\ ~destroyed /\ Dequeues) =>
          LET cmd == Lower(Head(text_q))
              row == FirstRow(cmd)
          IN  /\ out' # <<>>
              /\ out'[1] = Line("You: ", cmd)
              /\ Replies(out') \in RowReplies(row, tasks)
              /\ awaiting_task' = (row = "add")
              /\ tasks' = tasks
              /\ destroyed' => row = "exit"
              /\ (ui_pc' = "idle") => row \in {"screenshot", "browser"} ]_vars

\* C3 witness: "add task time", which matches the add row and the time row,
\* got the add-task prompt.
C3_Witness ==
    /\ out = PromptOut(P_add_task \o <<" ">> \o P_time)
    /\ awaiting_task

\* C4: a list command on an empty list shows one no-tasks line; on tasks
\* T1..Tn it shows n lines, Ti on line i; the list and the state are unchanged.
C4_ListInOrder ==
    [][ ( /\ ~awaiting_task
          /\ ~destroyed
          /\ Dequeues
          /\ Head(text_q) \in {P_list_tasks, U_Show_Tasks} ) =>
          LET you == Line("You: ", Lower(Head(text_q)))
          IN  /\ tasks = <<>> =>
                   /\ out' = <<you, Fixed("Assistant: You have no tasks.")>>
                   /\ said' = <<Fixed("You have no tasks.")>>
              /\ tasks # <<>> =>
                   /\ Len(out') = 1 + Len(tasks)
                   /\ out'[1] = you
                   /\ \A i \in DOMAIN tasks :
                        out'[i + 1] = Line("Assistant: ", tasks[i])
                   /\ said' = [i \in DOMAIN tasks |-> Line("", tasks[i])]
              /\ UNCHANGED <<tasks, awaiting_task>> ]_vars

\* C4 witness: two different tasks were listed, in the order stored.
C4_Witness ==
    /\ tasks = <<U_buy_milk, U_Call_Mom>>
    /\ out = <<Line("You: ", P_list_tasks), Line("Assistant: ", U_buy_milk),
               Line("Assistant: ", U_Call_Mom)>>

\* C5: the task list only grows at its end: in every step the old list is a
\* prefix of the new one.
C5_AppendOnly == [][IsPrefix(tasks, tasks')]_vars

\* C5 witness: the same text was stored twice.
C5_Witness == Len(tasks) = 2 /\ tasks[1] = tasks[2]

\* C6: a step of the capture callback, of the recognizer thread or of a speech
\* thread leaves the task list and awaiting_task as they are; a step that
\* changes either is an iteration of check_text_queue.
C6_OnlyPollMutates ==
    [][ /\ (SdCallback \/ SttWait \/ SttGet \/ SttAccept \/ SpeakDone)
           => UNCHANGED <<tasks, awaiting_task>>
        /\ (tasks' # tasks \/ awaiting_task' # awaiting_task)
           => (Dequeues /\ ui_pc \in {"idle", "drain"}) ]_vars

\* C6 witness: the recognizer holds a buffer and a speech thread runs while
\* the poll loop, which has stored a task, is in its loop.
C6_Witness ==
    /\ ui_pc = "drain"
    /\ stt_pc = "accept"
    /\ speaking
    /\ tasks # <<>>
    /\ audio_q # <<>>

\* C7: a buffer captured while the listening flag was clear never reaches the
\* recognizer.
C7_OnlyHeardAudioRecognized == stt_pc = "accept" => data.heard

\* C8: with no model the listening flag is never set, the recognizer thread
\* stays at its wait, and stop, save and close remain available.
C8_NoModelNoListening ==
    ~vosk_model =>
        /\ ~listening_flag
        /\ stt_pc = "wait"
        /\ dialog = "Model missing" => out = <<>>
        /\ ui_pc = "idle" =>
             (ENABLED StopListen /\ ENABLED SaveTasks /\ ENABLED OnClose)

\* C8 witness: Start Listening was pressed with no model, and the error shown.
C8_Witness ==
    /\ ~vosk_model
    /\ dialog = "Model missing"
    /\ audio_q # <<>>

\* C9: every queued utterance, and every stored task, is non-empty after
\* trimming, and the queue holds it trimmed.
C9_NoEmptyUtterance ==
    /\ \A i \in DOMAIN text_q :
         ~IsBlank(text_q[i])
         /\ text_q[i][1] \notin Whitespace
         /\ text_q[i][Len(text_q[i])] \notin Whitespace
    /\ \A i \in DOMAIN tasks : ~IsBlank(tasks[i])

\* C9 witness: an utterance was queued by the recognizer thread.
C9_Witness == text_q = <<U_buy_milk>> /\ stt_pc = "wait" /\ listening_flag

\* C10: from the press that starts listening to the press that stops it, with
\* no utterance handled in between, the task list and awaiting_task do not
\* change, and the flag is clear after the second press.
C10_StartStopFrame ==
    [][ ( /\ out = ListeningOut \/ out' = ListeningOut
          /\ out' \in {ListeningOut, StoppedOut} ) =>
          /\ UNCHANGED <<tasks, awaiting_task>>
          /\ out' = StoppedOut => ~listening_flag'
          /\ (out' = ListeningOut /\ out # ListeningOut) => listening_flag' ]_vars

\* C10 witness: listening was started and stopped with nothing captured.
C10_Witness ==
    /\ out = StoppedOut
    /\ ~listening_flag
    /\ stt_pc = "get"
    /\ audio_q = <<>>
    /\ text_q = <<>>
    /\ tasks = <<>>
    /\ ~awaiting_task


\* The text of a file that holds the tasks one per line, each line ended by a
\* newline, built from the last task backwards.
RECURSIVE OnePerLine(_)
OnePerLine(tks) ==
    IF Len(tks) = 0 THEN <<>>
    ELSE OnePerLine(SubSeq(tks, 1, Len(tks) - 1)) \o tks[Len(tks)] \o <<"\n">>

\* The step is a run of save_tasks that shows its result or changes the file.
SaveStep ==
    \/ file' # file
    \/ dialog' # dialog /\ dialog' \in {"Saved", "Error"}

\* C11: whenever a save has reported success, tasks.txt holds exactly the
\* stored tasks in order, one per line, each newline-terminated, whatever the
\* file held before; a second save of the same list leaves the same text.
C11_SaveExact ==
    [][ /\ dialog' = "Saved" => file' = OnePerLine(tasks')
        /\ (dialog = "Saved" /\ dialog' = "Saved" /\ tasks' = tasks)
           => file' = file ]_vars

\* C11 witness: two different tasks were saved, in the order stored.
C11_Witness ==
    /\ dialog = "Saved"
    /\ tasks = <<U_buy_milk, P_add_task>>
    /\ file = U_buy_milk \o <<"\n">> \o P_add_task \o <<"\n">>

\* C12: a run of save_tasks shows "Saved" or "Error" and nothing else, shows
\* "Error" whenever the file is left other than the full list, and changes
\* neither the task list, awaiting_task, the listening flag nor the queues.
C12_SaveFrame ==
    [][ SaveStep =>
          /\ dialog' \in {"Saved", "Error"}
          /\ file' # OnePerLine(tasks) => dialog' = "Error"
          /\ out' = <<>>
          /\ UNCHANGED <<tasks, awaiting_task, listening_flag, text_q, audio_q,
                         destroyed>> ]_vars

\* C12 witness: a save failed after the first of two tasks was written, while
\* listening and awaiting a task description; the list is whole.
C12_Witness ==
    /\ dialog = "Error"
    /\ tasks = <<U_buy_milk, P_add_task>>
    /\ file = U_buy_milk \o <<"\n">>
    /\ listening_flag
    /\ awaiting_task


\* What the browser row shows for the utterance u.
BrowserOut(u) ==
    <<Line("You: ", Lower(u)), Fixed("Assistant: Opening browser.")>>

ExitOut(u) == <<Line("You: ", Lower(u)), Fixed("Assistant: Goodbye!")>>

\* The step dispatches an utterance whose first matching row is the exit row.
ExitDispatch ==
    /\ ~awaiting_task
    /\ ~destroyed
    /\ Dequeues
    /\ FirstRow(Lower(Head(text_q))) = "exit"

\* The step is a run of on_close from the window manager.
WindowClose ==
    /\ ~Dequeues
    /\ dialog' = "Quit"
    /\ dialog # "Quit" \/ destroyed' # destroyed \/ out' # out

\* C14: an exit command dispatched in the idle state shows and speaks the
\* farewell and asks the close question; after the question, asked for the
\* command or for the window's close button, either the flag is clear and the
\* window destroyed, or the program runs on with the flag and the window as
\* they were; the task list and awaiting_task are unchanged in both cases.  A
\* destroyed window has the flag clear, and the interface thread does nothing
\* but leave: no step is taken once it has.
C14_ExitAsksThenCloses ==
    /\ [][ /\ ExitDispatch =>
                /\ out' = ExitOut(Head(text_q))
                /\ said' = <<Fixed("Goodbye")>>
                /\ dialog' = "Quit"
           /\ (ExitDispatch \/ WindowClose) =>
                /\ \/ destroyed' /\ ~listening_flag'
                   \/ /\ UNCHANGED <<destroyed, listening_flag>>
                      /\ ui_pc' # "exited"
                /\ UNCHANGED <<tasks, awaiting_task, file>>
           /\ destroyed => (ui_pc' # ui_pc => ui_pc' = "exited")
           /\ ui_pc # "exited" ]_vars
    /\ [](destroyed => ~listening_flag /\ ui_pc \in {"drain", "exited"})

\* C14 witness: the user declined to quit after "exit" was heard, while
\* listening with a task stored; the program runs on.
C14_Witness ==
    /\ out = ExitOut(P_exit)
    /\ dialog = "Quit"
    /\ ~destroyed
    /\ listening_flag
    /\ ui_pc = "idle"
    /\ tasks = <<U_buy_milk>>

\* A buffer delivered with a device status is put at the end of audio_q.
StatusPut ==
    audio_q' = Append(audio_q, [heard |-> listening_flag, status |-> TRUE,
                                live |-> TRUE])

\* C16: while the stream is open and audio_q has room, the callback can queue
\* a buffer delivered with a status; with the model loaded the recognizer
\* thread never ends: it passes its wait when the flag is set, takes the next
\* buffer when one is queued, and after a buffer that came with a status it
\* is back at its wait like after any other.
C16_StatusDoesNotStop ==
    /\ []( (Running /\ stt_pc # "dead" /\ Len(audio_q) < MaxAudio)
             => ENABLED (SdCallback /\ StatusPut) )
    /\ []( (vosk_model /\ Running) =>
             /\ stt_pc \in {"wait", "get", "accept"}
             /\ (stt_pc = "wait" /\ listening_flag) => ENABLED SttWait
             /\ (stt_pc = "get" /\ audio_q # <<>>) => ENABLED SttGet
             /\ (stt_pc = "accept" /\ Len(text_q) < MaxText)
                  => ENABLED (SttAccept /\ text_q' # text_q) )
    /\ [][ (stt_pc = "accept" /\ data.status /\ vosk_model /\ stt_pc' # stt_pc)
             => stt_pc' = "wait" /\ listening_flag' = listening_flag ]_vars

\* C16 witness: while listening, a buffer that came with a status is at the
\* recognizer, and the next one, also with a status, is queued behind it.
C16_Witness ==
    /\ listening_flag
    /\ stt_pc = "accept"
    /\ data = [heard |-> TRUE, status |-> TRUE, live |-> TRUE]
    /\ audio_q = <<[heard |-> TRUE, status |-> TRUE, live |-> TRUE]>>

\* n as two decimal digits, for n below 100
Pad2(n) ==
    LET digit(k) == SubSeq(<<"0","1","2","3","4","5","6","7","8","9">>,
                           k + 1, k + 1)
    IN  IF n < 10 THEN <<"0">> \o digit(n)
        ELSE digit(n \div 10) \o digit(n - 10 * (n \div 10))

\* h:m on the 12-hour clock: 0 and 12 are shown as 12, 13..23 as 1..11
TwelveHour(h, m) ==
    LET hh == IF h = 0 THEN 12 ELSE IF h > 12 THEN h - 12 ELSE h
    IN  Pad2(hh) \o <<":">> \o Pad2(m) \o <<" ">>
        \o <<IF h < 12 THEN "A" ELSE "P", "M">>

\* C17: a time command dispatched in the idle state when the clock reads h:m
\* shows and speaks "The time is " followed by h:m on the 12-hour clock, two
\* digits each, with AM before noon and PM from noon on; at 14:05 that is
\* "02:05 PM".
C17_TwelveHourClock ==
    [][ ( /\ ~awaiting_task
          /\ ~destroyed
          /\ Dequeues
          /\ FirstRow(Lower(Head(text_q))) = "time" ) =>
          /\ clock'.h \in 0..23
          /\ clock'.m \in 0..59
          /\ out' = << Line("You: ", Lower(Head(text_q))),
                       Line("Assistant: The time is ",
                            TwelveHour(clock'.h, clock'.m)) >>
          /\ said' = <<Line("The time is ", TwelveHour(clock'.h, clock'.m))>>
          /\ clock' = [h |-> 14, m |-> 5] =>
               said'[1].arg = <<"0","2",":","0","5"," ","P","M">>
          /\ UNCHANGED <<tasks, awaiting_task>> ]_vars

\* C17 witness: "what's the time" was dispatched at 14:05.
C17_Witness ==
    /\ clock = [h |-> 14, m |-> 5]
    /\ out = << Line("You: ", P_whats_the_time),
                Line("Assistant: The time is ",
                     <<"0","2",":","0","5"," ","P","M">>) >>

AddDispatch ==
    /\ ~awaiting_task
    /\ ~destroyed
    /\ Dequeues
    /\ FirstRow(Lower(Head(text_q))) = "add"

\* Stored tasks, plus one for a prompt not yet answered
Accounted(tks, awaiting) == Len(tks) + (IF awaiting THEN 1 ELSE 0)

\* C19: the number of stored tasks plus one for a pending prompt is 0 at the
\* start and grows by one in exactly the steps that dispatch an add-task
\* command, so that it equals the number of such commands so far; a task is
\* appended only to answer a pending prompt, it is the utterance dequeued
\* next, and that answers the prompt.
C19_TasksMatchAddCommands ==
    /\ Accounted(tasks, awaiting_task) = 0
    /\ [][ /\ Accounted(tasks', awaiting_task')
              = Accounted(tasks, awaiting_task)
                + (IF AddDispatch THEN 1 ELSE 0)
           /\ tasks' # tasks =>
                /\ awaiting_task /\ ~awaiting_task'
                /\ Dequeues
                /\ tasks' = Append(tasks, Head(text_q))
           /\ (awaiting_task /\ ~destroyed /\ Dequeues) =>
                tasks' = Append(tasks, Head(text_q))
           /\ (awaiting_task /\ ~Dequeues) => awaiting_task' ]_vars

\* C19 witness: three add-task commands were dispatched: two were answered,
\* the second with the words "add task", and the third prompt is pending.
C19_Witness ==
    /\ tasks = <<U_buy_milk, P_add_task>>
    /\ awaiting_task
    /\ out = PromptOut(P_add_task)

\* The poll loop cannot go on: the window is gone, or the model's bound on
\* the task list is reached while a task description is awaited.
PollStopped ==
    \/ destroyed
    \/ awaiting_task /\ Len(tasks) >= MaxTasks

\* C15: under fair polling the queue is drained: it is empty again and again,
\* or the poll dequeues again and again, unless the window is closed.  The
\* queue changes only by a put at its end or a get at its head, and the
\* utterance taken is handled once, by task-fill when awaiting_task is set
\* and by the dispatcher otherwise.
C15_DrainedInOrder ==
    /\ \/ []<>(text_q = <<>> \/ PollStopped)
       \/ []<><<Dequeues>>_vars
    /\ [][ text_q' # text_q =>
             \/ /\ Len(text_q') = Len(text_q) + 1
                /\ SubSeq(text_q', 1, Len(text_q)) = text_q
                /\ UNCHANGED <<tasks, awaiting_task, out, said>>
             \/ /\ Dequeues
                /\ ~destroyed =>
                     IF awaiting_task
                     THEN /\ tasks' = Append(tasks, Head(text_q))
                          /\ out' = AddedOut(Head(text_q))
                     ELSE /\ tasks' = tasks
                          /\ out' # <<>>
                          /\ out'[1] = Line("You: ", Lower(Head(text_q))) ]_vars

\* C15 witness: an utterance was queued while the poll loop was in its loop,
\* after it had handled an earlier one.
C15_Witness ==
    /\ ui_pc = "drain"
    /\ ~destroyed
    /\ out = AddedOut(P_open_chrome)
    /\ text_q = <<P_exit, P_add_task>>

====
